---- MODULE Spec2Model ----
(***************************************************************************)
(* Model of frontend/csi/helpers/kubernetes/upgrade_pv.go: the workflow    *)
(* that converts a legacy NFS/iSCSI PersistentVolume into a CSI one.       *)
(*                                                                         *)
(* The plugin's single thread of control is the program counter pc; the    *)
(* cluster (API server objects, the informer cache, the PV controller, the *)
(* garbage collector, the kubelet) is the environment, which moves between *)
(* any two steps of the plugin.                                            *)
(***************************************************************************)
EXTENDS Integers, Sequences, FiniteSets, TLC

\* ------------------------------------------------------------------ bounds
\* Evaluations of a waiter's condition before its deadline must have elapsed.
MaxAttempts == 2
\* Entries of a pod's volume list that reference the claim.
MaxRefs == 2

\* --------------------------------------------------------------- constants
AnnDynamicallyProvisioned == "pv.kubernetes.io/provisioned-by"
AnnBindCompleted == "pv.kubernetes.io/bind-completed"
FinalizerPVProtection == "kubernetes.io/pv-protection"
LegacyProvisioner == "netapp.io/trident"
Provisioner == "csi.trident.netapp.io"
VolumeStateOnline == "online"
VolumeBound == "Bound"
ClaimLost == "Lost"
ClaimBound == "Bound"
PodRunning == "Running"

\* ------------------------------------------------------------------ values
\* A nil pointer, a key the store does not hold, an object of another type.
Nil == [kind |-> "nil"]
NotFound == [kind |-> "absent"]
NonPV == [kind |-> "nonPV"]

IsPV(o) == o.kind = "pv"

\* Annotation and attribute maps are sets of <<key, value>> pairs.
Keys(m) == {kv[1] : kv \in m}
Get(m, k) == IF k \in Keys(m) THEN (CHOOSE kv \in m : kv[1] = k)[2] ELSE ""
Put(m, k, v) == {kv \in m : kv[1] # k} \cup {<<k, v>>}

RequestVolume == "pv1"
ClaimName == "pvc1"
ClaimNamespace == "ns"
PodNames == <<"pod1", "pod2">>

VARIABLES
    registry,          \* the orchestrator's record of request.Volume, or NotFound
    registryReads,     \* number of GetVolume calls made
    pvLive,            \* the PV named request.Volume in the API server
    pvCache,           \* the same key in the informer cache (pvIndexer)
    pvcObj,            \* the PVC ns/pvc1 (API server and cache)
    pods,              \* pods of the claim's namespace, by position in the list
    pc,                \* position of the plugin's thread
    ret,               \* where deletePVForUpgrade returns to
    subErr,            \* error returned by deletePVForUpgrade ("" is nil)
    attempts,          \* failed evaluations of the current waiter's condition
    idx,               \* position in ownedPodsForPVC of the running loop
    volume,            \* UpgradeVolume's local volume
    pv,                \* UpgradeVolume's / deletePVForUpgrade's local pv
    pvc,               \* UpgradeVolume's local pvc
    ownedPodsForPVC,
    nakedPodsForPVC,
    deletedPV,         \* deletePVForUpgrade's local deletedPV
    lostPVC,
    unboundLostPVC,
    csiPV,             \* the object createCSIPVFromPV submitted to Create
    result,            \* what UpgradeVolume returned
    calls,             \* mutating API calls issued so far, in order
    steps,             \* workflow steps completed so far, in order
    seen,              \* what the plugin observed and the patches it computed
    first,             \* outcome of the first of two deletePVForUpgrade calls
    second             \* outcome of the second

vars == <<registry, registryReads, pvLive, pvCache, pvcObj, pods,
          pc, ret, subErr, attempts, idx, volume, pv, pvc, ownedPodsForPVC,
          nakedPodsForPVC, deletedPV, lostPVC, unboundLostPVC, csiPV, result,
          calls, steps, seen, first, second>>

cluster == <<pvLive, pvCache, pvcObj, pods>>
locals == <<volume, pv, pvc, ownedPodsForPVC, nakedPodsForPVC, deletedPV,
            lostPVC, unboundLostPVC, csiPV>>
harness == <<first, second>>

\* ----------------------------------------------------------- object shapes
NFSSource(ro) == [kind |-> "nfs", ReadOnly |-> ro]
ISCSISource(ro, fs) == [kind |-> "iscsi", ReadOnly |-> ro, FSType |-> fs]

Volume(name, backend, internal, protocol, state) ==
    [kind |-> "volume", BackendUUID |-> backend, State |-> state,
     Config |-> [Name |-> name, InternalName |-> internal,
                 Protocol |-> protocol]]

LegacyPV(nfs, iscsi, phase, ann, fin, marked) ==
    [kind |-> "pv", Name |-> RequestVolume, UID |-> "uid-1",
     ResourceVersion |-> "rv-1", DeletionTimestamp |-> marked,
     Finalizers |-> fin, Annotations |-> ann, NFS |-> nfs, ISCSI |-> iscsi,
     CSI |-> Nil, Phase |-> phase,
     ClaimRef |-> [Name |-> ClaimName, Namespace |-> ClaimNamespace]]

PVC(phase, ann) ==
    [kind |-> "pvc", Name |-> ClaimName, Namespace |-> ClaimNamespace,
     Phase |-> phase, Annotations |-> ann]

Pod(name, owned, refs, phase) ==
    [kind |-> "pod", Name |-> name, Owned |-> owned, Refs |-> refs,
     Phase |-> phase, Deleting |-> FALSE]

\* ---------------------------------------------------------- input domains
Volumes ==
    {NotFound} \cup
    {Volume(RequestVolume, "backend-1", "trident_pv1", "file", st) :
        st \in {"online", "offline"}}

FinalizerLists ==
    {<<>>, <<FinalizerPVProtection>>, <<"example.com/hold">>,
     <<FinalizerPVProtection, "example.com/hold">>}

ProvisionedBy ==
    {{}, {<<AnnDynamicallyProvisioned, LegacyProvisioner>>},
     {<<AnnDynamicallyProvisioned, "kubernetes.io/nfs">>}}

CachedPVs ==
    {NotFound, NonPV} \cup
    {LegacyPV(nfs, iscsi, phase, ann, fin, marked) :
        nfs \in {Nil, NFSSource(TRUE)},
        iscsi \in {Nil, ISCSISource(FALSE, "ext4")},
        phase \in {"Bound", "Available"},
        ann \in ProvisionedBy,
        fin \in FinalizerLists,
        marked \in BOOLEAN}

CachedPVCs ==
    {NotFound,
     PVC("Bound", {<<AnnBindCompleted, "yes">>}),
     PVC("Bound", {<<AnnBindCompleted, "yes">>, <<"team", "storage">>}),
     PVC("Pending", {}),
     PVC("Lost", {<<AnnBindCompleted, "yes">>})}

PodChoices(name) ==
    {NotFound} \cup
    {Pod(name, owned, refs, PodRunning) : owned \in BOOLEAN, refs \in 0..MaxRefs}

PodLists == {ps \in [1..Len(PodNames) -> UNION {PodChoices(PodNames[i]) : i \in 1..Len(PodNames)}] :
                \A i \in 1..Len(PodNames) : ps[i] \in PodChoices(PodNames[i])}

\* ------------------------------------------------------------ bookkeeping
Running == [status |-> "running", volume |-> Nil, err |-> "", names |-> <<>>]
Failure(msg, names) == [status |-> "error", volume |-> Nil, err |-> msg, names |-> names]
Success(v) == [status |-> "ok", volume |-> v, err |-> "", names |-> <<>>]

\* The last evaluation of a waiter's condition: what the lookup returned,
\* whether the condition passed, which evaluation of the wait it was and how
\* many mutating calls had been issued by then.
NoCheck == [waiter |-> "none", saw |-> Nil, ok |-> FALSE, attempt |-> 0,
            writes |-> 0]
Check(waiter, saw, ok) ==
    [waiter |-> waiter, saw |-> saw, ok |-> ok, attempt |-> attempts + 1,
     writes |-> Len(calls)]

\* The arguments of the last patchPV and patchPVC calls.
Patch(old, new) == [kind |-> "patch", old |-> old, new |-> new]

NothingSeen == [pvAbsent |-> FALSE, lost |-> FALSE, terminal |-> {},
                check |-> NoCheck, pvPatch |-> Nil, pvcPatch |-> Nil]
NoOutcome == [kind |-> "none"]

Call(op, target) == [op |-> op, target |-> target, step |-> Len(steps) + 1]

Fail(msg, names) == result' = Failure(msg, names) /\ pc' = "done"
Goto(label) == pc' = label /\ result' = result

\* ---------------------------------------------------------------- helpers
\* getCachedPVByName: the cached PV, or an error when the key is absent or
\* holds an object that is not a PV.
getCachedPVByName(cache) == IF IsPV(cache) THEN cache ELSE NotFound

\* getCachedPVCByName: the cached PVC, or an error when the key is absent.
getCachedPVCByName(cache) == IF cache.kind = "pvc" THEN cache ELSE NotFound

\* Mutant of CheckPV: the phase check left out.
CheckPV_NoPhase(p) ==
    IF p.NFS = Nil /\ p.ISCSI = Nil
    THEN "PV to be upgraded must be of type NFS or iSCSI"
    ELSE IF Get(p.Annotations, AnnDynamicallyProvisioned) # LegacyProvisioner
    THEN "PV upgrade: PV must have been provisioned by Trident"
    ELSE ""

\* Lines 69-96: the checks made on the cached PV, "" when all pass.
CheckPV(p) ==
    IF p.NFS = Nil /\ p.ISCSI = Nil
    THEN "PV to be upgraded must be of type NFS or iSCSI"
    ELSE IF p.Phase # VolumeBound
    THEN "PV upgrade: PV must be bound to a PVC"
    ELSE IF Get(p.Annotations, AnnDynamicallyProvisioned) # LegacyProvisioner
    THEN "PV upgrade: PV must have been provisioned by Trident"
    ELSE ""

\* Mutant of CheckFinalizers: only the first finalizer is looked at.
CheckFinalizers_FirstOnly(p) ==
    IF Len(p.Finalizers) > 0 /\ p.Finalizers[1] # FinalizerPVProtection
    THEN "PV upgrade: PV has a finalizer other than kubernetes.io/pv-protection"
    ELSE ""

\* Lines 152-159: at most one finalizer, which must be pv-protection.
CheckFinalizers(p) ==
    IF Len(p.Finalizers) > 0
       /\ (p.Finalizers[1] # FinalizerPVProtection \/ Len(p.Finalizers) > 1)
    THEN "PV upgrade: PV has a finalizer other than kubernetes.io/pv-protection"
    ELSE ""

\* getPodsForPVC's loop: one append per volume entry that names the claim.
RECURSIVE PodsForPVC(_, _, _)
PodsForPVC(items, owned, i) ==
    IF i > Len(items) THEN <<>>
    ELSE (IF items[i].kind = "pod" /\ items[i].Owned = owned
          THEN [j \in 1..items[i].Refs |-> items[i].Name]
          ELSE <<>>) \o PodsForPVC(items, owned, i + 1)

\* Mutant of getPodsForPVC: the scan for naked pods stops at the first found.
getPodsForPVC_FirstNaked(items) ==
    [owned |-> PodsForPVC(items, TRUE, 1),
     naked |-> LET all == PodsForPVC(items, FALSE, 1)
               IN IF all = <<>> THEN <<>> ELSE <<all[1]>>]

getPodsForPVC(items) ==
    [owned |-> PodsForPVC(items, TRUE, 1), naked |-> PodsForPVC(items, FALSE, 1)]

\* Mutant of CSIPVFromPV: the iSCSI source is not cleared.
CSIPVFromPV_KeepsISCSI(p, v) ==
    [p EXCEPT !.ResourceVersion = "",
              !.UID = "",
              !.NFS = Nil,
              !.CSI = [kind |-> "csi", Driver |-> Provisioner,
                       VolumeHandle |-> p.Name,
                       ReadOnly |-> IF p.NFS # Nil THEN p.NFS.ReadOnly
                                    ELSE IF p.ISCSI # Nil THEN p.ISCSI.ReadOnly
                                    ELSE FALSE,
                       FSType |-> IF p.NFS = Nil /\ p.ISCSI # Nil
                                  THEN p.ISCSI.FSType ELSE "",
                       VolumeAttributes |->
                           {<<"backendUUID", v.BackendUUID>>,
                            <<"name", v.Config.Name>>,
                            <<"internalName", v.Config.InternalName>>,
                            <<"protocol", v.Config.Protocol>>}],
              !.Annotations = Put(p.Annotations, AnnDynamicallyProvisioned,
                                  Provisioner)]

\* Mutant of CSIPVFromPV: the NFS source's read-only flag is not carried over.
CSIPVFromPV_DropsNFSReadOnly(p, v) ==
    [p EXCEPT !.ResourceVersion = "",
              !.UID = "",
              !.NFS = Nil,
              !.ISCSI = Nil,
              !.CSI = [kind |-> "csi", Driver |-> Provisioner,
                       VolumeHandle |-> p.Name,
                       ReadOnly |-> IF p.NFS = Nil /\ p.ISCSI # Nil
                                    THEN p.ISCSI.ReadOnly ELSE FALSE,
                       FSType |-> IF p.NFS = Nil /\ p.ISCSI # Nil
                                  THEN p.ISCSI.FSType ELSE "",
                       VolumeAttributes |->
                           {<<"backendUUID", v.BackendUUID>>,
                            <<"name", v.Config.Name>>,
                            <<"internalName", v.Config.InternalName>>,
                            <<"protocol", v.Config.Protocol>>}],
              !.Annotations = Put(p.Annotations, AnnDynamicallyProvisioned,
                                  Provisioner)]

\* createCSIPVFromPV up to the Create call: the object it builds.
CSIPVFromPV(p, v) ==
    LET readOnly == IF p.NFS # Nil THEN p.NFS.ReadOnly
                    ELSE IF p.ISCSI # Nil THEN p.ISCSI.ReadOnly ELSE FALSE
        fsType == IF p.NFS # Nil THEN ""
                  ELSE IF p.ISCSI # Nil THEN p.ISCSI.FSType ELSE ""
        volumeAttributes == {<<"backendUUID", v.BackendUUID>>,
                             <<"name", v.Config.Name>>,
                             <<"internalName", v.Config.InternalName>>,
                             <<"protocol", v.Config.Protocol>>}
    IN [p EXCEPT !.ResourceVersion = "",
                 !.UID = "",
                 !.NFS = Nil,
                 !.ISCSI = Nil,
                 !.CSI = [kind |-> "csi", Driver |-> Provisioner,
                          VolumeHandle |-> p.Name, ReadOnly |-> readOnly,
                          FSType |-> fsType,
                          VolumeAttributes |-> volumeAttributes],
                 !.Annotations = Put(p.Annotations, AnnDynamicallyProvisioned,
                                     Provisioner)]

\* Mutant of WithoutBindCompleted: the clone is left with no annotation.
WithoutBindCompleted_DropsAll(c) == [c EXCEPT !.Annotations = {}]

\* removePVCBindCompletedAnnotation's clone: every annotation but one.
WithoutBindCompleted(c) ==
    [c EXCEPT !.Annotations = {kv \in c.Annotations : kv[1] # AnnBindCompleted}]

\* patchPV(old, new) on the API server's object: a merge patch of the
\* difference between old and new. The plugin only ever changes Finalizers.
patchPV(live, old, new) ==
    IF IsPV(live) /\ old.Finalizers # new.Finalizers
    THEN [live EXCEPT !.Finalizers = new.Finalizers]
    ELSE live

\* patchPVC(old, new) likewise; only annotations are ever changed, and a key
\* absent from new is removed.
patchPVC(live, old, new) ==
    IF live.kind = "pvc"
    THEN [live EXCEPT !.Annotations =
            {kv \in live.Annotations :
                ~(kv[1] \in Keys(old.Annotations) /\ kv[1] \notin Keys(new.Annotations))}
            \cup {kv \in new.Annotations : kv \notin old.Annotations}]
    ELSE live

\* ------------------------------------------------------------------- Init
Init ==
    /\ registry \in Volumes
    /\ registryReads = 0
    /\ pvCache \in CachedPVs
    /\ pvLive = IF IsPV(pvCache) THEN pvCache ELSE NotFound
    /\ pvcObj \in CachedPVCs
    /\ pods \in PodLists
    /\ pc = "start"
    /\ ret = "afterDeletePV"
    /\ subErr = ""
    /\ attempts = 0
    /\ idx = 0
    /\ volume = Nil
    /\ pv = Nil
    /\ pvc = Nil
    /\ ownedPodsForPVC = <<>>
    /\ nakedPodsForPVC = <<>>
    /\ deletedPV = Nil
    /\ lostPVC = Nil
    /\ unboundLostPVC = Nil
    /\ csiPV = Nil
    /\ result = Running
    /\ calls = <<>>
    /\ steps = <<>>
    /\ seen = NothingSeen
    /\ first = NoOutcome
    /\ second = NoOutcome

\* ------------------------------------------------- UpgradeVolume: validation
\* Mutant of UV_GetVolume: the volume found is marked as being upgraded.
UV_GetVolume_MarksUpgrading ==
    /\ pc = "start"
    /\ registryReads' = registryReads + 1
    /\ IF registry.kind = "absent"
       THEN /\ Fail("PV upgrade: could not find the volume to upgrade", <<>>)
            /\ UNCHANGED <<volume, registry>>
       ELSE /\ volume' = registry
            /\ IF registry.State # VolumeStateOnline
               THEN /\ Fail("PV upgrade: Trident volume to be upgraded must be in online state", <<>>)
                    /\ registry' = registry
               ELSE /\ Goto("getPV")
                    /\ registry' = [registry EXCEPT !.State = "upgrading"]
    /\ UNCHANGED <<cluster, ret, subErr, attempts, idx, pv, pvc,
                   ownedPodsForPVC, nakedPodsForPVC, deletedPV, lostPVC,
                   unboundLostPVC, csiPV, calls, steps, seen, harness>>

\* Lines 31-55: GetVolume and the online check.
UV_GetVolume ==
    /\ pc = "start"
    /\ registryReads' = registryReads + 1
    /\ IF registry.kind = "absent"
       THEN /\ Fail("PV upgrade: could not find the volume to upgrade", <<>>)
            /\ volume' = volume
       ELSE /\ volume' = registry
            /\ IF registry.State # VolumeStateOnline
               THEN Fail("PV upgrade: Trident volume to be upgraded must be in online state", <<>>)
               ELSE Goto("getPV")
    /\ UNCHANGED <<registry, cluster, ret, subErr, attempts, idx, pv, pvc,
                   ownedPodsForPVC, nakedPodsForPVC, deletedPV, lostPVC,
                   unboundLostPVC, csiPV, calls, steps, seen, harness>>

\* Lines 57-100: the cached PV and the checks on it.
UV_GetPV ==
    /\ pc = "getPV"
    /\ LET got == getCachedPVByName(pvCache) IN
       IF got = NotFound
       THEN /\ Fail("PV upgrade: could not find the PV to upgrade", <<>>)
            /\ pv' = pv
       ELSE /\ pv' = got
            /\ IF CheckPV(got) # "" THEN Fail(CheckPV(got), <<>>) ELSE Goto("getPVC")
    /\ UNCHANGED <<registry, registryReads, cluster, ret, subErr, attempts, idx,
                   volume, pvc, ownedPodsForPVC, nakedPodsForPVC, deletedPV,
                   lostPVC, unboundLostPVC, csiPV, calls, steps, seen, harness>>

\* Lines 102-119: the cached PVC the PV's ClaimRef names.
UV_GetPVC ==
    /\ pc = "getPVC"
    /\ LET got == getCachedPVCByName(pvcObj) IN
       IF got = NotFound
       THEN /\ Fail("PV upgrade: could not find the PVC bound to the PV", <<>>)
            /\ pvc' = pvc
       ELSE /\ pvc' = got
            /\ Goto("getPods")
    /\ UNCHANGED <<registry, registryReads, cluster, ret, subErr, attempts, idx,
                   volume, pv, ownedPodsForPVC, nakedPodsForPVC, deletedPV,
                   lostPVC, unboundLostPVC, csiPV, calls, steps, seen, harness>>

\* Lines 121-159: the pods using the PVC, then the finalizer check.
UV_GetPods ==
    /\ pc = "getPods"
    /\ \E listed \in BOOLEAN :
        IF ~listed
        THEN /\ Fail("PV upgrade: could not check for pods using the PV", <<>>)
             /\ UNCHANGED <<ownedPodsForPVC, nakedPodsForPVC, steps>>
        ELSE LET found == getPodsForPVC(pods) IN
             /\ ownedPodsForPVC' = found.owned
             /\ nakedPodsForPVC' = found.naked
             /\ IF Len(found.naked) > 0
                THEN /\ Fail("PV upgrade: one or more naked pods are using the PV", found.naked)
                     /\ steps' = steps
                ELSE IF CheckFinalizers(pv) # ""
                THEN /\ Fail(CheckFinalizers(pv), <<>>)
                     /\ steps' = steps
                ELSE /\ Goto("deletePV")
                     /\ steps' = Append(steps, "Validating")
    /\ UNCHANGED <<registry, registryReads, cluster, ret, subErr, attempts, idx,
                   volume, pv, pvc, deletedPV, lostPVC, unboundLostPVC, csiPV,
                   calls, seen, harness>>

\* ------------------------------------------------------ backoff.RetryNotify
\* After a failed evaluation the poller either sleeps and retries or finds
\* the deadline elapsed; after MaxAttempts evaluations it has elapsed.
DeadlineElapsed(timedOut) == timedOut \/ attempts + 1 >= MaxAttempts

\* ------------------------------------------------------ deletePVForUpgrade
\* What waitForDeletedPV's condition makes of the cache: ok, and the PV seen.
CheckForDeletedPV(cache) ==
    IF cache = NotFound THEN [ok |-> TRUE, pv |-> Nil]
    ELSE IF ~IsPV(cache) THEN [ok |-> FALSE, pv |-> Nil]
    ELSE IF ~cache.DeletionTimestamp THEN [ok |-> FALSE, pv |-> cache]
    ELSE [ok |-> TRUE, pv |-> cache]

\* removePVFinalizers' clone.
WithoutFinalizers(p) == [p EXCEPT !.Finalizers = <<>>]

\* Mutant of DPV_Entry: the delete is sent whether or not the PV passed in
\* already has a deletion timestamp.
DPV_Entry_AlwaysDeletes ==
    /\ pc = "deletePV"
    /\ \E ok \in BOOLEAN :
        /\ ok => IsPV(pvLive)
        /\ calls' = Append(calls, Call("deletePV", pv.Name))
        /\ IF ok
           THEN /\ pvLive' = [pvLive EXCEPT !.DeletionTimestamp = TRUE]
                /\ pc' = "waitForDeletedPV"
                /\ subErr' = ""
           ELSE /\ pvLive' = pvLive
                /\ pc' = ret
                /\ subErr' = "delete failed"
    /\ attempts' = 0
    /\ UNCHANGED <<registry, registryReads, pvCache, pvcObj, pods, ret, idx,
                   locals, result, steps, seen, harness>>

\* Lines 287-316 up to the first wait: the delete call, or, on a PV already
\* marked, the finalizer patch against the PV passed in.
DPV_Entry ==
    /\ pc = "deletePV"
    /\ \E ok \in BOOLEAN :
        IF ~pv.DeletionTimestamp
        THEN /\ ok => IsPV(pvLive)
             /\ calls' = Append(calls, Call("deletePV", pv.Name))
             /\ IF ok
                THEN /\ pvLive' = [pvLive EXCEPT !.DeletionTimestamp = TRUE]
                     /\ pc' = "waitForDeletedPV"
                     /\ subErr' = ""
                ELSE /\ pvLive' = pvLive
                     /\ pc' = ret
                     /\ subErr' = "delete failed"
             /\ seen' = seen
        ELSE IF Len(pv.Finalizers) > 0
        THEN /\ ok => IsPV(pvLive)
             /\ calls' = Append(calls, Call("patchPV", pv.Name))
             /\ seen' = [seen EXCEPT !.pvPatch = Patch(pv, WithoutFinalizers(pv))]
             /\ IF ok
                THEN /\ pvLive' = patchPV(pvLive, pv, WithoutFinalizers(pv))
                     /\ pc' = "waitForPVDisappearance"
                     /\ subErr' = ""
                ELSE /\ pvLive' = pvLive
                     /\ pc' = ret
                     /\ subErr' = "could not remove finalizers from PV"
        ELSE /\ ok
             /\ pc' = "waitForPVDisappearance"
             /\ subErr' = ""
             /\ UNCHANGED <<calls, pvLive, seen>>
    /\ attempts' = 0
    /\ UNCHANGED <<registry, registryReads, pvCache, pvcObj, pods, ret, idx,
                   locals, result, steps, harness>>

\* Lines 301-303 and 332-368: one evaluation of waitForDeletedPV's condition.
DPV_WaitForDeletedPV ==
    /\ pc = "waitForDeletedPV"
    /\ LET check == CheckForDeletedPV(pvCache) IN
       /\ seen' = [seen EXCEPT !.check = Check("waitForDeletedPV", pvCache, check.ok)]
       /\ IF check.ok
          THEN /\ deletedPV' = check.pv
               /\ pc' = IF check.pv # Nil THEN "removePVFinalizers"
                        ELSE "waitForPVDisappearance"
               /\ attempts' = 0
               /\ subErr' = subErr
          ELSE \E timedOut \in BOOLEAN :
               IF DeadlineElapsed(timedOut)
               THEN /\ deletedPV' = Nil
                    /\ pc' = ret
                    /\ subErr' = "PV was not deleted"
                    /\ attempts' = 0
               ELSE /\ attempts' = attempts + 1
                    /\ UNCHANGED <<deletedPV, pc, subErr>>
    /\ UNCHANGED <<registry, registryReads, cluster, ret, idx, volume, pv, pvc,
                   ownedPodsForPVC, nakedPodsForPVC, lostPVC, unboundLostPVC,
                   csiPV, result, calls, steps, harness>>

\* Mutant of DPV_RemoveFinalizers: once the patch is accepted the call
\* returns, without the final wait for the PV to leave the cache.
DPV_RemoveFinalizers_ReturnsAfterPatch ==
    /\ pc = "removePVFinalizers"
    /\ \E ok \in BOOLEAN :
        /\ ok => IsPV(pvLive)
        /\ calls' = Append(calls, Call("patchPV", deletedPV.Name))
        /\ seen' = [seen EXCEPT !.pvPatch =
                        Patch(deletedPV, WithoutFinalizers(deletedPV)),
                                !.pvAbsent = TRUE]
        /\ IF ok
           THEN /\ pvLive' = patchPV(pvLive, deletedPV, WithoutFinalizers(deletedPV))
                /\ pc' = ret
                /\ subErr' = ""
           ELSE /\ pvLive' = pvLive
                /\ pc' = ret
                /\ subErr' = "could not remove finalizers from PV"
    /\ attempts' = 0
    /\ UNCHANGED <<registry, registryReads, pvCache, pvcObj, pods, ret, idx,
                   locals, result, steps, harness>>

\* Mutant of DPV_RemoveFinalizers: the patch is computed against the PV
\* passed in to deletePVForUpgrade.
DPV_RemoveFinalizers_UsesOriginal ==
    /\ pc = "removePVFinalizers"
    /\ \E ok \in BOOLEAN :
        /\ ok => IsPV(pvLive)
        /\ calls' = Append(calls, Call("patchPV", pv.Name))
        /\ seen' = [seen EXCEPT !.pvPatch = Patch(pv, WithoutFinalizers(pv))]
        /\ IF ok
           THEN /\ pvLive' = patchPV(pvLive, pv, WithoutFinalizers(pv))
                /\ pc' = "waitForPVDisappearance"
                /\ subErr' = ""
           ELSE /\ pvLive' = pvLive
                /\ pc' = ret
                /\ subErr' = "could not remove finalizers from PV"
    /\ attempts' = 0
    /\ UNCHANGED <<registry, registryReads, pvCache, pvcObj, pods, ret, idx,
                   locals, result, steps, harness>>

\* Lines 303-307 and 444-461: the finalizer patch against the PV the wait
\* returned.
DPV_RemoveFinalizers ==
    /\ pc = "removePVFinalizers"
    /\ \E ok \in BOOLEAN :
        /\ ok => IsPV(pvLive)
        /\ calls' = Append(calls, Call("patchPV", deletedPV.Name))
        /\ seen' = [seen EXCEPT !.pvPatch =
                        Patch(deletedPV, WithoutFinalizers(deletedPV))]
        /\ IF ok
           THEN /\ pvLive' = patchPV(pvLive, deletedPV, WithoutFinalizers(deletedPV))
                /\ pc' = "waitForPVDisappearance"
                /\ subErr' = ""
           ELSE /\ pvLive' = pvLive
                /\ pc' = ret
                /\ subErr' = "could not remove finalizers from PV"
    /\ attempts' = 0
    /\ UNCHANGED <<registry, registryReads, pvCache, pvcObj, pods, ret, idx,
                   locals, result, steps, harness>>

\* Lines 318-323 and 371-402: one evaluation of waitForPVDisappearance's
\* condition.
DPV_WaitForPVDisappearance ==
    /\ pc = "waitForPVDisappearance"
    /\ IF pvCache = NotFound
       THEN /\ seen' = [seen EXCEPT !.pvAbsent = TRUE,
                                    !.check = Check("waitForPVDisappearance",
                                                    pvCache, TRUE)]
            /\ pc' = ret
            /\ subErr' = ""
            /\ attempts' = 0
       ELSE /\ seen' = [seen EXCEPT !.check = Check("waitForPVDisappearance",
                                                    pvCache, FALSE)]
            /\ \E timedOut \in BOOLEAN :
                IF DeadlineElapsed(timedOut)
                THEN /\ pc' = ret
                     /\ subErr' = "PV was not fully deleted"
                     /\ attempts' = 0
                ELSE /\ attempts' = attempts + 1
                     /\ UNCHANGED <<pc, subErr>>
    /\ UNCHANGED <<registry, registryReads, cluster, ret, idx, locals, result,
                   calls, steps, harness>>

\* ------------------------------------------- UpgradeVolume: the mutations
\* Mutant of UV_AfterDeletePV: the pods are deleted without waiting for the
\* claim to become Lost.
UV_AfterDeletePV_SkipsLost ==
    /\ pc = "afterDeletePV"
    /\ IF subErr # ""
       THEN /\ Fail("PV upgrade: could not delete the PV", <<>>)
            /\ UNCHANGED <<steps, idx>>
       ELSE /\ Goto("deletePods")
            /\ idx' = 1
            /\ steps' = Append(steps, "DeletingLegacyResource")
    /\ attempts' = 0
    /\ UNCHANGED <<registry, registryReads, cluster, ret, subErr, locals,
                   calls, seen, harness>>

\* Mutant of UV_AfterDeletePV: the error deletePVForUpgrade returned is
\* logged and the workflow carries on.
UV_AfterDeletePV_IgnoresError ==
    /\ pc = "afterDeletePV"
    /\ Goto("waitForPVCLost")
    /\ steps' = Append(steps, "DeletingLegacyResource")
    /\ attempts' = 0
    /\ UNCHANGED <<registry, registryReads, cluster, ret, subErr, idx, locals,
                   calls, seen, harness>>

\* Lines 166-174: deletePVForUpgrade has returned.
UV_AfterDeletePV ==
    /\ pc = "afterDeletePV"
    /\ IF subErr # ""
       THEN /\ Fail("PV upgrade: could not delete the PV", <<>>)
            /\ steps' = steps
       ELSE /\ Goto("waitForPVCLost")
            /\ steps' = Append(steps, "DeletingLegacyResource")
    /\ attempts' = 0
    /\ UNCHANGED <<registry, registryReads, cluster, ret, subErr, idx, locals,
                   calls, seen, harness>>

\* waitForPVCPhase's condition, lines 412-420.
CheckForPVCPhase(cache, phase) ==
    getCachedPVCByName(cache) # NotFound /\ cache.Phase = phase

\* Mutant of UV_WaitForPVCLost: the wait has no deadline, a failed
\* evaluation is always followed by another.
UV_WaitForPVCLost_NoDeadline ==
    /\ pc = "waitForPVCLost"
    /\ IF CheckForPVCPhase(pvcObj, ClaimLost)
       THEN /\ lostPVC' = pvcObj
            /\ seen' = [seen EXCEPT !.lost = TRUE,
                                    !.check = Check("waitForPVCPhase", pvcObj, TRUE)]
            /\ steps' = Append(steps, "AwaitingClaimPairLost")
            /\ Goto("deletePods")
            /\ idx' = 1
            /\ attempts' = 0
       ELSE /\ seen' = [seen EXCEPT !.check = Check("waitForPVCPhase", pvcObj, FALSE)]
            /\ UNCHANGED <<attempts, lostPVC, steps, idx, pc, result>>
    /\ UNCHANGED <<registry, registryReads, cluster, ret, subErr, volume, pv, pvc,
                   ownedPodsForPVC, nakedPodsForPVC, deletedPV, unboundLostPVC,
                   csiPV, calls, harness>>

\* Lines 176-191 and 405-441: one evaluation of the wait for Lost.
UV_WaitForPVCLost ==
    /\ pc = "waitForPVCLost"
    /\ IF CheckForPVCPhase(pvcObj, ClaimLost)
       THEN /\ lostPVC' = pvcObj
            /\ seen' = [seen EXCEPT !.lost = TRUE,
                                    !.check = Check("waitForPVCPhase", pvcObj, TRUE)]
            /\ steps' = Append(steps, "AwaitingClaimPairLost")
            /\ Goto("deletePods")
            /\ idx' = 1
            /\ attempts' = 0
       ELSE /\ seen' = [seen EXCEPT !.check = Check("waitForPVCPhase", pvcObj, FALSE)]
            /\ \E timedOut \in BOOLEAN :
                IF DeadlineElapsed(timedOut)
                THEN /\ Fail("PV upgrade: PVC did not reach the Lost state", <<pvc.Name>>)
                     /\ attempts' = 0
                     /\ UNCHANGED <<lostPVC, steps, idx>>
                ELSE /\ attempts' = attempts + 1
                     /\ UNCHANGED <<lostPVC, steps, idx, pc, result>>
    /\ UNCHANGED <<registry, registryReads, cluster, ret, subErr, volume, pv, pvc,
                   ownedPodsForPVC, nakedPodsForPVC, deletedPV, unboundLostPVC,
                   csiPV, calls, harness>>

PodIndex(name) == CHOOSE i \in 1..Len(PodNames) : PodNames[i] = name

\* Lines 193-213: one iteration of the delete loop.
UV_DeletePod ==
    /\ pc = "deletePods"
    /\ idx <= Len(ownedPodsForPVC)
    /\ LET podName == ownedPodsForPVC[idx]
           i == PodIndex(podName) IN
       \E ok \in BOOLEAN :
        /\ ok => pods[i].kind = "pod"
        /\ calls' = Append(calls, Call("deletePod", podName))
        /\ IF ok
           THEN /\ pods' = [pods EXCEPT ![i].Deleting = TRUE]
                /\ idx' = idx + 1
                /\ UNCHANGED <<pc, result>>
           ELSE /\ Fail("PV upgrade: could not delete a pod using the PV", <<podName>>)
                /\ UNCHANGED <<pods, idx>>
    /\ UNCHANGED <<registry, registryReads, pvLive, pvCache, pvcObj, ret, subErr,
                   attempts, locals, steps, seen, harness>>

\* Mutant of UV_DeletePodsDone: the delete loop may be left before the last
\* owned pod has been deleted.
UV_DeletePodsDone_Early ==
    /\ pc = "deletePods"
    /\ steps' = Append(steps, "DeletingOwnedWorkloads")
    /\ Goto("waitForPods")
    /\ idx' = 1
    /\ attempts' = 0
    /\ UNCHANGED <<registry, registryReads, cluster, ret, subErr, locals, calls,
                   seen, harness>>

\* Line 194, the loop's exit.
UV_DeletePodsDone ==
    /\ pc = "deletePods"
    /\ idx > Len(ownedPodsForPVC)
    /\ steps' = Append(steps, "DeletingOwnedWorkloads")
    /\ Goto("waitForPods")
    /\ idx' = 1
    /\ attempts' = 0
    /\ UNCHANGED <<registry, registryReads, cluster, ret, subErr, locals, calls,
                   seen, harness>>

\* Mutant of CheckForDeletedPod: a failed Get counts as the pod being gone.
CheckForDeletedPod_ErrorIsGone(fetched, pod) ==
    ~fetched \/ pod.kind # "pod" \/ pod.Phase # PodRunning

\* waitForDeletedOrNonRunningPod's condition, lines 565-589, on what Get
\* returned: a transient error, not-found, or the pod.
CheckForDeletedPod(fetched, pod) ==
    fetched /\ (pod.kind # "pod" \/ pod.Phase # PodRunning)

\* What the live Get of the pod returned.
Fetched(fetched, pod) == IF fetched THEN pod ELSE [kind |-> "error"]

\* Lines 215-235 and 559-610: one evaluation of the wait for one pod.
UV_WaitForPod ==
    /\ pc = "waitForPods"
    /\ idx <= Len(ownedPodsForPVC)
    /\ LET podName == ownedPodsForPVC[idx]
           pod == pods[PodIndex(podName)] IN
       \E fetched \in BOOLEAN :
        IF CheckForDeletedPod(fetched, pod)
        THEN /\ seen' = [seen EXCEPT !.terminal = @ \cup {podName},
                                     !.check = Check("waitForDeletedOrNonRunningPod",
                                                     Fetched(fetched, pod), TRUE)]
             /\ idx' = idx + 1
             /\ attempts' = 0
             /\ UNCHANGED <<pc, result>>
        ELSE /\ seen' = [seen EXCEPT !.check = Check("waitForDeletedOrNonRunningPod",
                                                     Fetched(fetched, pod), FALSE)]
             /\ \E timedOut \in BOOLEAN :
                 IF DeadlineElapsed(timedOut)
                 THEN /\ Fail("PV upgrade: unexpected pod status", <<podName>>)
                      /\ attempts' = 0
                      /\ idx' = idx
                 ELSE /\ attempts' = attempts + 1
                      /\ UNCHANGED <<idx, pc, result>>
    /\ UNCHANGED <<registry, registryReads, cluster, ret, subErr, locals, calls,
                   steps, harness>>

\* Line 216, the loop's exit.
UV_WaitForPodsDone ==
    /\ pc = "waitForPods"
    /\ idx > Len(ownedPodsForPVC)
    /\ steps' = Append(steps, "AwaitingWorkloadsTerminal")
    /\ Goto("removeBindCompleted")
    /\ UNCHANGED <<registry, registryReads, cluster, ret, subErr, attempts, idx,
                   locals, calls, seen, harness>>

\* Lines 239-249 and 463-483: the PVC patch.
UV_RemoveBindCompleted ==
    /\ pc = "removeBindCompleted"
    /\ \E ok \in BOOLEAN :
        /\ ok => pvcObj.kind = "pvc"
        /\ calls' = Append(calls, Call("patchPVC", lostPVC.Name))
        /\ seen' = [seen EXCEPT !.pvcPatch =
                        Patch(lostPVC, WithoutBindCompleted(lostPVC))]
        /\ IF ok
           THEN /\ pvcObj' = patchPVC(pvcObj, lostPVC, WithoutBindCompleted(lostPVC))
                /\ unboundLostPVC' = pvcObj'
                /\ steps' = Append(steps, "StrippingBindAnnotation")
                /\ Goto("createCSIPV")
           ELSE /\ Fail("PV upgrade: could not remove bind-completed annotation from PVC", <<>>)
                /\ UNCHANGED <<pvcObj, unboundLostPVC, steps>>
    /\ UNCHANGED <<registry, registryReads, pvLive, pvCache, pods, ret, subErr,
                   attempts, idx, volume, pv, pvc, ownedPodsForPVC,
                   nakedPodsForPVC, deletedPV, lostPVC, csiPV, harness>>

\* Lines 251-261 and 487-530: the new PV is built and created.
UV_CreateCSIPV ==
    /\ pc = "createCSIPV"
    /\ \E ok \in BOOLEAN :
        /\ ok => pvLive = NotFound
        /\ csiPV' = CSIPVFromPV(pv, volume)
        /\ calls' = Append(calls, Call("createPV", csiPV'.Name))
        /\ IF ok
           THEN /\ pvLive' = [csiPV' EXCEPT !.UID = "uid-2",
                                            !.ResourceVersion = "rv-2",
                                            !.DeletionTimestamp = FALSE]
                /\ steps' = Append(steps, "CreatingDriverResource")
                /\ Goto("waitForPVCBound")
           ELSE /\ Fail("PV upgrade: could not create the CSI version of PV being upgraded", <<>>)
                /\ UNCHANGED <<pvLive, steps>>
    /\ attempts' = 0
    /\ UNCHANGED <<registry, registryReads, pvCache, pvcObj, pods, ret, subErr,
                   idx, volume, pv, pvc, ownedPodsForPVC, nakedPodsForPVC,
                   deletedPV, lostPVC, unboundLostPVC, seen, harness>>

\* Lines 263-278: one evaluation of the wait for Bound.
UV_WaitForPVCBound ==
    /\ pc = "waitForPVCBound"
    /\ seen' = [seen EXCEPT !.check = Check("waitForPVCPhase", pvcObj,
                                            CheckForPVCPhase(pvcObj, ClaimBound))]
    /\ IF CheckForPVCPhase(pvcObj, ClaimBound)
       THEN /\ steps' = Append(steps, "AwaitingClaimPairBound")
            /\ Goto("return")
            /\ attempts' = 0
       ELSE \E timedOut \in BOOLEAN :
            IF DeadlineElapsed(timedOut)
            THEN /\ Fail("PV upgrade: PVC did not reach the Bound state", <<unboundLostPVC.Name>>)
                 /\ attempts' = 0
                 /\ steps' = steps
            ELSE /\ attempts' = attempts + 1
                 /\ UNCHANGED <<steps, pc, result>>
    /\ UNCHANGED <<registry, registryReads, cluster, ret, subErr, idx, locals,
                   calls, harness>>

\* Lines 283-284.
UV_Return ==
    /\ pc = "return"
    /\ result' = Success(volume)
    /\ pc' = "done"
    /\ steps' = Append(steps, "Done")
    /\ UNCHANGED <<registry, registryReads, cluster, ret, subErr, attempts, idx,
                   locals, calls, seen, harness>>

\* ------------------------------------------------------------- the cluster
InFlight == pc # "done"

\* The informer delivers the API server's PV to the cache.
EnvSyncPVCache ==
    /\ InFlight
    /\ pvCache # pvLive
    /\ pvCache' = pvLive
    /\ UNCHANGED <<registry, registryReads, pvLive, pvcObj, pods, pc, ret, subErr,
                   attempts, idx, locals, result, calls, steps, seen, harness>>

\* The API server removes a PV marked for deletion that no finalizer holds.
EnvRemovePV ==
    /\ InFlight
    /\ IsPV(pvLive)
    /\ pvLive.DeletionTimestamp
    /\ pvLive.Finalizers = <<>>
    /\ pvLive' = NotFound
    /\ UNCHANGED <<registry, registryReads, pvCache, pvcObj, pods, pc, ret, subErr,
                   attempts, idx, locals, result, calls, steps, seen, harness>>

\* The PV controller marks a bound claim Lost when its PV is gone.
EnvClaimLost ==
    /\ InFlight
    /\ pvcObj.kind = "pvc"
    /\ pvcObj.Phase = ClaimBound
    /\ pvLive = NotFound
    /\ pvcObj' = [pvcObj EXCEPT !.Phase = ClaimLost]
    /\ UNCHANGED <<registry, registryReads, pvLive, pvCache, pods, pc, ret, subErr,
                   attempts, idx, locals, result, calls, steps, seen, harness>>

\* The PV controller binds a claim without bind-completed to the PV that
\* names it.
EnvClaimBound ==
    /\ InFlight
    /\ pvcObj.kind = "pvc"
    /\ pvcObj.Phase # ClaimBound
    /\ AnnBindCompleted \notin Keys(pvcObj.Annotations)
    /\ IsPV(pvLive)
    /\ ~pvLive.DeletionTimestamp
    /\ pvcObj' = [pvcObj EXCEPT !.Phase = ClaimBound,
                                !.Annotations = Put(@, AnnBindCompleted, "yes")]
    /\ UNCHANGED <<registry, registryReads, pvLive, pvCache, pods, pc, ret, subErr,
                   attempts, idx, locals, result, calls, steps, seen, harness>>

\* A pod being deleted is removed, or its containers exit first.
EnvPodGone(i) ==
    /\ InFlight
    /\ pods[i].kind = "pod"
    /\ pods[i].Deleting
    /\ pods' = [pods EXCEPT ![i] = NotFound]
    /\ UNCHANGED <<registry, registryReads, pvLive, pvCache, pvcObj, pc, ret, subErr,
                   attempts, idx, locals, result, calls, steps, seen, harness>>

EnvPodExited(i) ==
    /\ InFlight
    /\ pods[i].kind = "pod"
    /\ pods[i].Deleting
    /\ pods[i].Phase = PodRunning
    /\ pods' = [pods EXCEPT ![i].Phase = "Succeeded"]
    /\ UNCHANGED <<registry, registryReads, pvLive, pvCache, pvcObj, pc, ret, subErr,
                   attempts, idx, locals, result, calls, steps, seen, harness>>

Env ==
    \/ EnvSyncPVCache
    \/ EnvRemovePV
    \/ EnvClaimLost
    \/ EnvClaimBound
    \/ \E i \in 1..Len(PodNames) : EnvPodGone(i)
    \/ \E i \in 1..Len(PodNames) : EnvPodExited(i)

UpgradeVolume ==
    \/ UV_GetVolume
    \/ UV_GetPV
    \/ UV_GetPVC
    \/ UV_GetPods
    \/ UV_AfterDeletePV
    \/ UV_WaitForPVCLost
    \/ UV_DeletePod
    \/ UV_DeletePodsDone
    \/ UV_WaitForPod
    \/ UV_WaitForPodsDone
    \/ UV_RemoveBindCompleted
    \/ UV_CreateCSIPV
    \/ UV_WaitForPVCBound
    \/ UV_Return

deletePVForUpgrade ==
    \/ DPV_Entry
    \/ DPV_WaitForDeletedPV
    \/ DPV_RemoveFinalizers
    \/ DPV_WaitForPVDisappearance

Next == UpgradeVolume \/ deletePVForUpgrade \/ Env

Spec == Init /\ [][Next]_vars

\* The plugin's goroutine keeps running: a call returns, a sleep between two
\* evaluations ends. Nothing is assumed of the cluster.
SpecLive == Spec /\ WF_vars(UpgradeVolume \/ deletePVForUpgrade)

\* ------------------------------------ a run beside another finalizer owner
\* Another controller adds its finalizer to the PV; the API server accepts
\* a new finalizer only on an object that is not being deleted.
EnvAddFinalizer ==
    /\ InFlight
    /\ IsPV(pvLive)
    /\ ~pvLive.DeletionTimestamp
    /\ "example.com/hold" \notin {pvLive.Finalizers[i] : i \in 1..Len(pvLive.Finalizers)}
    /\ pvLive' = [pvLive EXCEPT !.Finalizers = Append(@, "example.com/hold")]
    /\ UNCHANGED <<registry, registryReads, pvCache, pvcObj, pods, pc, ret, subErr,
                   attempts, idx, locals, result, calls, steps, seen, harness>>

\* Runs on a PV that passes validation as the cache shows it at entry.
InitRace ==
    /\ Init
    /\ registry # NotFound
    /\ registry.State = VolumeStateOnline
    /\ IsPV(pvCache)
    /\ pvCache.ISCSI = Nil
    /\ CheckPV(pvCache) = ""
    /\ CheckFinalizers(pvCache) = ""
    /\ pvcObj = PVC("Bound", {<<AnnBindCompleted, "yes">>})
    /\ \A i \in 1..Len(PodNames) : pods[i].kind = "pod" => pods[i].Owned

NextRace == Next \/ EnvAddFinalizer

SpecRace == InitRace /\ [][NextRace]_vars

\* ------------------------------------- createCSIPVFromPV on arbitrary inputs
ConvertedPVs ==
    {LegacyPV(nfs, iscsi, "Bound", ann, <<>>, marked) :
        nfs \in {Nil} \cup {NFSSource(ro) : ro \in BOOLEAN},
        iscsi \in {Nil} \cup {ISCSISource(ro, fs) : ro \in BOOLEAN, fs \in {"", "ext4"}},
        ann \in ProvisionedBy,
        marked \in BOOLEAN}

ConvertedVolumes ==
    {Volume(name, backend, internal, protocol, "online") :
        name \in {RequestVolume, "vol-2"},
        backend \in {"backend-1", "backend-2"},
        internal \in {"trident_pv1", "trident_vol_2"},
        protocol \in {"file", "block"}}

InitConv ==
    /\ registry = NotFound
    /\ registryReads = 0
    /\ pvCache = NotFound
    /\ pvLive = NotFound
    /\ pvcObj = PVC("Lost", {})
    /\ pods = [i \in 1..Len(PodNames) |-> NotFound]
    /\ pc = "createCSIPV"
    /\ ret = "afterDeletePV"
    /\ subErr = ""
    /\ attempts = 0
    /\ idx = 1
    /\ volume \in ConvertedVolumes
    /\ pv \in ConvertedPVs
    /\ pvc = pvcObj
    /\ ownedPodsForPVC = <<>>
    /\ nakedPodsForPVC = <<>>
    /\ deletedPV = Nil
    /\ lostPVC = pvcObj
    /\ unboundLostPVC = pvcObj
    /\ csiPV = Nil
    /\ result = Running
    /\ calls = <<>>
    /\ steps = <<>>
    /\ seen = NothingSeen
    /\ first = NoOutcome
    /\ second = NoOutcome

NextConv == UV_CreateCSIPV

SpecConv == InitConv /\ [][NextConv]_vars

\* ----------------------------------- deletePVForUpgrade, called twice over
\* The caller's two calls with the same pv, and what each returned.
Outcome == [kind |-> "outcome", err |-> subErr, pvCache |-> pvCache,
            pvLive |-> pvLive, calls |-> calls]

Twice_AfterFirst ==
    /\ pc = "afterFirst"
    /\ first' = Outcome
    /\ pc' = "deletePV"
    /\ ret' = "afterSecond"
    /\ UNCHANGED <<registry, registryReads, cluster, subErr, attempts, idx,
                   locals, result, calls, steps, seen, second>>

Twice_AfterSecond ==
    /\ pc = "afterSecond"
    /\ second' = Outcome
    /\ pc' = "done"
    /\ UNCHANGED <<registry, registryReads, cluster, ret, subErr, attempts, idx,
                   locals, result, calls, steps, seen, first>>

\* The PV passed in was read from the cache; the cache lags the API server,
\* where the PV may since have been marked or removed, and the key may by
\* now hold an object that is not a PV.
InitTwice ==
    /\ registry = NotFound
    /\ registryReads = 0
    /\ pv \in {LegacyPV(nfs, Nil, "Bound", ann, fin, marked) :
                 nfs \in {NFSSource(FALSE)},
                 ann \in {{<<AnnDynamicallyProvisioned, LegacyProvisioner>>}},
                 fin \in {<<>>, <<FinalizerPVProtection>>},
                 marked \in BOOLEAN}
    /\ pvCache \in {pv, [pv EXCEPT !.DeletionTimestamp = TRUE], NotFound, NonPV}
    /\ pvLive \in {NotFound} \cup
                  (IF IsPV(pvCache)
                   THEN {pvCache, [pvCache EXCEPT !.DeletionTimestamp = TRUE]}
                   ELSE IF pvCache = NonPV
                   THEN {pv, [pv EXCEPT !.DeletionTimestamp = TRUE]}
                   ELSE {})
    /\ pvcObj = NotFound
    /\ pods = [i \in 1..Len(PodNames) |-> NotFound]
    /\ pc = "deletePV"
    /\ ret = "afterFirst"
    /\ subErr = ""
    /\ attempts = 0
    /\ idx = 0
    /\ volume = Nil
    /\ pvc = Nil
    /\ ownedPodsForPVC = <<>>
    /\ nakedPodsForPVC = <<>>
    /\ deletedPV = Nil
    /\ lostPVC = Nil
    /\ unboundLostPVC = Nil
    /\ csiPV = Nil
    /\ result = Running
    /\ calls = <<>>
    /\ steps = <<>>
    /\ seen = NothingSeen
    /\ first = NoOutcome
    /\ second = NoOutcome

NextTwice ==
    \/ deletePVForUpgrade
    \/ Twice_AfterFirst
    \/ Twice_AfterSecond
    \/ EnvSyncPVCache
    \/ EnvRemovePV

SpecTwice == InitTwice /\ [][NextTwice]_vars

\* ================================================================== claims
Range(q) == {q[i] : i \in 1..Len(q)}
Ops == {c.op : c \in Range(calls)}
Finished == pc = "done"
Rejected == result.status = "error" /\ result.volume = Nil
NoMutation == calls = <<>>
\* The local pv is the cached PV validation read, once it has read one.
ReadPV == pv # Nil
ReadPVC == pvc # Nil

\* C1: no mutating call is issued before validation has passed, and a run
\* that met any of the listed validation failures ended with an error and no
\* mutating call at all.
ValidationFailure ==
    \/ registry = NotFound
    \/ registry # NotFound /\ registry.State # VolumeStateOnline
    \/ ~ReadPV
    \/ ReadPV /\ pv.NFS = Nil /\ pv.ISCSI = Nil
    \/ ReadPV /\ pv.Phase # VolumeBound
    \/ ReadPV /\ Get(pv.Annotations, AnnDynamicallyProvisioned) # LegacyProvisioner
    \/ ~ReadPVC
    \/ result.err = "PV upgrade: could not check for pods using the PV"
    \/ ReadPV /\ pv.Finalizers \notin {<<>>, <<FinalizerPVProtection>>}

C1_NoMutationBeforeValidation ==
    /\ steps = <<>> => NoMutation
    /\ Finished /\ ValidationFailure => Rejected /\ NoMutation /\ steps = <<>>

C1_Witness ==
    /\ Finished
    /\ ReadPV /\ ReadPVC
    /\ pv.Finalizers = <<FinalizerPVProtection, "example.com/hold">>
    /\ result.err = "PV upgrade: PV has a finalizer other than kubernetes.io/pv-protection"
    /\ NoMutation

\* C2: a run on a PV with neither legacy descriptor, or with both, ended
\* with an error and no mutating call.
C2_NeitherOrBothRejected ==
    Finished /\ ReadPV /\ ((pv.NFS = Nil) <=> (pv.ISCSI = Nil))
        => Rejected /\ NoMutation

\* C3: a run on a claim used by standalone pods ended with an error and no
\* mutating call, and when validation got as far as the pod check the error
\* names every standalone pod.
NakedPods == {i \in 1..Len(PodNames) :
                pods[i].kind = "pod" /\ ~pods[i].Owned /\ pods[i].Refs > 0}

C3_NakedPodsRejected ==
    Finished /\ NakedPods # {} =>
        /\ Rejected /\ NoMutation
        /\ ReadPVC /\ result.err # "PV upgrade: could not check for pods using the PV"
            => /\ result.err = "PV upgrade: one or more naked pods are using the PV"
               /\ \A i \in NakedPods : PodNames[i] \in Range(result.names)

C3_Witness ==
    /\ Finished
    /\ Cardinality(NakedPods) = 2
    /\ result.err = "PV upgrade: one or more naked pods are using the PV"
    /\ Range(result.names) = Range(PodNames)

\* C4 as stated: a run that found the cached claim in a phase other than
\* Bound ended with an error and no mutating call.
C4_ClaimNotBoundRejected ==
    Finished /\ ReadPVC /\ pvc.Phase # ClaimBound => Rejected /\ NoMutation

\* C4 as amended: a run that found the cached PV in a phase other than
\* Bound ended with an error and no mutating call.
C4_PVNotBoundRejected ==
    Finished /\ ReadPV /\ pv.Phase # VolumeBound => Rejected /\ NoMutation

C4_Witness ==
    /\ Finished
    /\ ReadPV
    /\ pv.NFS # Nil
    /\ pv.Phase = "Available"
    /\ result.err = "PV upgrade: PV must be bound to a PVC"

\* C5: the steps complete in the one fixed order, each at most once; the
\* step in progress is always the one after the last completed; every
\* mutating call is issued within the step it belongs to; and a completed
\* step has made its observation or issued its calls.
Order == <<"Validating", "DeletingLegacyResource", "AwaitingClaimPairLost",
           "DeletingOwnedWorkloads", "AwaitingWorkloadsTerminal",
           "StrippingBindAnnotation", "CreatingDriverResource",
           "AwaitingClaimPairBound", "Done">>

StepInProgress ==
    CASE pc \in {"start", "getPV", "getPVC", "getPods"} -> 1
      [] pc \in {"deletePV", "waitForDeletedPV", "removePVFinalizers",
                 "waitForPVDisappearance", "afterDeletePV"} -> 2
      [] pc = "waitForPVCLost" -> 3
      [] pc = "deletePods" -> 4
      [] pc = "waitForPods" -> 5
      [] pc = "removeBindCompleted" -> 6
      [] pc = "createCSIPV" -> 7
      [] pc = "waitForPVCBound" -> 8
      [] pc = "return" -> 9
      [] OTHER -> 0

StepOfOp(op) ==
    CASE op \in {"deletePV", "patchPV"} -> 2
      [] op = "deletePod" -> 4
      [] op = "patchPVC" -> 6
      [] op = "createPV" -> 7

CallsOf(op) == {i \in 1..Len(calls) : calls[i].op = op}

C5_LinearOrder ==
    /\ Len(steps) <= Len(Order)
    /\ steps = SubSeq(Order, 1, Len(steps))
    /\ ~Finished => StepInProgress = Len(steps) + 1
    /\ \A i \in 1..Len(calls) : calls[i].step = StepOfOp(calls[i].op)
    /\ \A i, j \in 1..Len(calls) : i < j => calls[i].step <= calls[j].step
    /\ Len(steps) >= 2 => seen.pvAbsent
    /\ Len(steps) >= 3 => seen.lost
    /\ Len(steps) >= 4 => Cardinality(CallsOf("deletePod")) = Len(ownedPodsForPVC)
    /\ Len(steps) >= 5 => Range(ownedPodsForPVC) \subseteq seen.terminal
    /\ Len(steps) >= 6 => Cardinality(CallsOf("patchPVC")) = 1
    /\ Len(steps) >= 7 => Cardinality(CallsOf("createPV")) = 1
    /\ result.status = "ok" <=> steps = Order

C5_Witness ==
    /\ result.status = "ok"
    /\ steps = Order
    /\ Len(ownedPodsForPVC) > 0
    /\ "patchPV" \in Ops

\* C6: an error return carries no volume, is the error of the step that was
\* in progress, follows no mutating call of a later step, and is followed by
\* no call at all; an error from deletePVForUpgrade is returned at once; a
\* claim that never became Lost is named in the error, with no pod delete,
\* claim patch or PV create issued.
StepOfError(err) ==
    CASE err = "PV upgrade: could not delete the PV" -> 2
      [] err = "PV upgrade: PVC did not reach the Lost state" -> 3
      [] err = "PV upgrade: could not delete a pod using the PV" -> 4
      [] err = "PV upgrade: unexpected pod status" -> 5
      [] err = "PV upgrade: could not remove bind-completed annotation from PVC" -> 6
      [] err = "PV upgrade: could not create the CSI version of PV being upgraded" -> 7
      [] err = "PV upgrade: PVC did not reach the Bound state" -> 8
      [] OTHER -> 1

C6_ErrorState ==
    /\ result.status = "error" =>
        /\ Finished
        /\ result.volume = Nil
        /\ StepOfError(result.err) = Len(steps) + 1
        /\ \A c \in Range(calls) : StepOfOp(c.op) <= Len(steps) + 1
    /\ subErr # "" =>
        \/ pc = "afterDeletePV"
        \/ Finished /\ result.err = "PV upgrade: could not delete the PV"
    /\ result.err = "PV upgrade: PVC did not reach the Lost state" =>
        /\ result.names = <<ClaimName>>
        /\ Ops \cap {"deletePod", "patchPVC", "createPV"} = {}

C6_AbortOnFirstError ==
    /\ []C6_ErrorState
    /\ [][result.status = "error" => calls' = calls /\ result' = result]_vars

C6_Witness ==
    /\ result.err = "PV upgrade: PVC did not reach the Lost state"
    /\ Len(ownedPodsForPVC) > 0
    /\ "deletePV" \in Ops
    /\ pvLive = NotFound

\* C7: on success the object submitted for creation has the legacy PV's
\* name, that name as its volume handle, a CSI source and no NFS or iSCSI
\* source, and the CSI provisioner in its provenance annotation; and a
\* create call is only ever issued after the PV was seen absent from the
\* cache.
C7_CreatedResource ==
    /\ "createPV" \in Ops => seen.pvAbsent
    /\ result.status = "ok" =>
        /\ csiPV.Name = pv.Name
        /\ csiPV.CSI # Nil
        /\ csiPV.CSI.VolumeHandle = pv.Name
        /\ csiPV.CSI.Driver = Provisioner
        /\ csiPV.NFS = Nil
        /\ csiPV.ISCSI = Nil
        /\ Get(csiPV.Annotations, AnnDynamicallyProvisioned) = Provisioner

C7_Witness ==
    /\ result.status = "ok"
    /\ pv.ISCSI # Nil
    /\ pv.NFS = Nil
    /\ IsPV(pvLive) /\ pvLive.CSI # Nil

\* C8: the CSI source built from a legacy PV and a volume record has the
\* read-only flag of a legacy source present (of the only one, when there is
\* one), an empty filesystem type for an NFS PV and the iSCSI source's
\* otherwise, and exactly the four attributes, each the volume record's.
C8_Conversion ==
    csiPV # Nil /\ (pv.NFS # Nil \/ pv.ISCSI # Nil) =>
        /\ pv.NFS # Nil /\ pv.ISCSI = Nil => csiPV.CSI.ReadOnly = pv.NFS.ReadOnly
        /\ pv.NFS = Nil /\ pv.ISCSI # Nil => csiPV.CSI.ReadOnly = pv.ISCSI.ReadOnly
        /\ csiPV.CSI.ReadOnly \in
             {src.ReadOnly : src \in {pv.NFS, pv.ISCSI} \ {Nil}}
        /\ csiPV.CSI.FSType = IF pv.NFS # Nil THEN "" ELSE pv.ISCSI.FSType
        /\ Keys(csiPV.CSI.VolumeAttributes) =
             {"backendUUID", "name", "internalName", "protocol"}
        /\ Cardinality(csiPV.CSI.VolumeAttributes) = 4
        /\ Get(csiPV.CSI.VolumeAttributes, "backendUUID") = volume.BackendUUID
        /\ Get(csiPV.CSI.VolumeAttributes, "name") = volume.Config.Name
        /\ Get(csiPV.CSI.VolumeAttributes, "internalName") = volume.Config.InternalName
        /\ Get(csiPV.CSI.VolumeAttributes, "protocol") = volume.Config.Protocol

C8_Witness ==
    /\ csiPV # Nil
    /\ pv.NFS # Nil /\ pv.NFS.ReadOnly /\ pv.ISCSI = Nil
    /\ csiPV.CSI.ReadOnly
    /\ csiPV.CSI.FSType = ""
    /\ volume.Config.Name # pv.Name
    /\ <<"name", volume.Config.Name>> \in csiPV.CSI.VolumeAttributes

\* C9: two calls in sequence on a PV passed in with its deletion marker set
\* and no finalizers issue no delete and no patch, and when the first
\* returned success so does the second, with the PV absent from the cache
\* after each and the cluster left as the first left it.
C9_Idempotent ==
    Finished /\ pv.DeletionTimestamp /\ pv.Finalizers = <<>> =>
        /\ first.calls = <<>>
        /\ second.calls = <<>>
        /\ first.err = "" =>
            /\ second.err = ""
            /\ first.pvCache = NotFound
            /\ second.pvCache = first.pvCache
            /\ second.pvLive = first.pvLive

C9_Witness ==
    /\ Finished
    /\ pv.DeletionTimestamp /\ pv.Finalizers = <<>>
    /\ first.err = "" /\ second.err = ""
    /\ second.pvCache = NotFound
    /\ second.calls = <<>>

\* C10: GetVolume is called once, at entry; the registry's record never
\* changes during a run; and the volume returned on success is that record.
C10_RegistryState ==
    /\ registryReads = IF pc = "start" THEN 0 ELSE 1
    /\ result.status = "ok" => result.volume = registry /\ result.volume = volume
    /\ volume # Nil => volume = registry

C10_RegistryReadOnly ==
    /\ []C10_RegistryState
    /\ [][registry' = registry]_vars

C10_Witness ==
    /\ result.status = "ok"
    /\ registryReads = 1
    /\ result.volume.State = VolumeStateOnline
    /\ result.volume.Config.InternalName = "trident_pv1"

\* C11: deletePVForUpgrade returns success only when the last thing it did
\* was a cache lookup that found the PV absent, made after every one of its
\* delete and patch calls; and when its final wait last saw something under
\* the name, it returned the error of that wait.
Returned == pc \in {"afterDeletePV", "afterFirst", "afterSecond"}

C11_SuccessOnlyAfterAbsence ==
    /\ Returned /\ subErr = "" =>
        /\ seen.check.waiter = "waitForPVDisappearance"
        /\ seen.check.saw = NotFound
        /\ seen.check.ok
        /\ seen.check.writes = Len(calls)
    /\ Returned /\ seen.check.waiter = "waitForPVDisappearance"
                /\ seen.check.saw # NotFound
        => subErr = "PV was not fully deleted"

C11_Witness ==
    /\ Returned /\ subErr = ""
    /\ Ops = {"deletePV", "patchPV"}
    /\ seen.check.writes = 2
    /\ seen.check.saw = NotFound

\* C12 as stated: after a delete, the finalizer patch is computed against
\* the PV that was passed in to deletePVForUpgrade.
C12_PatchAgainstOriginal ==
    "deletePV" \in Ops /\ seen.pvPatch # Nil => seen.pvPatch.old = pv

\* C12 as amended: after a delete, the finalizer patch is computed against
\* the PV that waitForDeletedPV read from the cache, which carries the
\* deletion timestamp the PV passed in does not; its target is that PV with
\* an empty finalizer list.
C12_PatchAgainstCachedCopy ==
    "deletePV" \in Ops /\ seen.pvPatch # Nil =>
        /\ seen.pvPatch.old = deletedPV
        /\ seen.pvPatch.old.DeletionTimestamp
        /\ ~pv.DeletionTimestamp
        /\ seen.pvPatch.new = [deletedPV EXCEPT !.Finalizers = <<>>]

C12_Witness ==
    /\ "deletePV" \in Ops
    /\ seen.pvPatch # Nil
    /\ seen.pvPatch.old = deletedPV
    /\ seen.pvPatch.old # pv
    /\ seen.pvPatch.old.Finalizers = <<FinalizerPVProtection>>
    /\ pvLive = NotFound

\* C13: in waitForPVDisappearance the evaluation that finds an object that
\* is not a PV under the name is the wait's last: the wait is never found
\* sleeping before another evaluation after such a one.
C13_TypeMismatchFatal ==
    ~(/\ pc = "waitForPVDisappearance"
      /\ attempts > 0
      /\ seen.check.waiter = "waitForPVDisappearance"
      /\ seen.check.saw = NonPV)

\* C14: when waitForDeletedPV timed out having last read a PV without a
\* deletion timestamp, the PV it returned is that one; and the PV it
\* returned on success, if any, is the one its last evaluation read and has
\* a deletion timestamp.
C14_ReturnsLastSeen ==
    /\ Returned /\ subErr = "PV was not deleted"
                /\ IsPV(seen.check.saw) /\ ~seen.check.saw.DeletionTimestamp
        => deletedPV = seen.check.saw
    /\ pc = "removePVFinalizers" =>
        /\ deletedPV = seen.check.saw
        /\ deletedPV.DeletionTimestamp

\* C15: an evaluation of waitForDeletedOrNonRunningPod's condition passes
\* exactly when the live Get reported not-found or returned the pod in a
\* phase other than Running; a pass ends the wait for that pod at once; a
\* running pod or a failed Get leads to a retry, every evaluation before a
\* retry having failed; and the timeout error follows a failed evaluation.
PodCheck == seen.check.waiter = "waitForDeletedOrNonRunningPod"

C15_PodWaitOutcome ==
    /\ PodCheck =>
        /\ seen.check.ok <=>
             \/ seen.check.saw.kind = "absent"
             \/ seen.check.saw.kind = "pod" /\ seen.check.saw.Phase # PodRunning
        /\ seen.check.ok /\ pc = "waitForPods" => attempts = 0
        /\ seen.check.ok => ownedPodsForPVC[idx - 1] \in seen.terminal
        /\ ~seen.check.ok /\ pc = "waitForPods" => attempts = seen.check.attempt
    /\ pc = "waitForPods" /\ attempts > 0 => PodCheck /\ ~seen.check.ok
    /\ result.err = "PV upgrade: unexpected pod status" =>
        /\ PodCheck /\ ~seen.check.ok
        /\ result.names = <<ownedPodsForPVC[idx]>>

C15_Witness ==
    /\ PodCheck
    /\ seen.check.ok
    /\ seen.check.attempt = 2
    /\ seen.check.saw.kind = "pod"
    /\ seen.check.saw.Phase = "Succeeded"
    /\ pc = "waitForPods"

\* C16: a waiter never evaluates its condition more often than its deadline
\* allows, sleeps before a further evaluation only after a failed one, and
\* every run of UpgradeVolume eventually returns, whatever the cluster does.
C16_WaiterState ==
    /\ attempts < MaxAttempts
    /\ attempts > 0 =>
        /\ pc \in {"waitForDeletedPV", "waitForPVDisappearance",
                    "waitForPVCLost", "waitForPods", "waitForPVCBound"}
        /\ ~seen.check.ok
        /\ seen.check.attempt = attempts

C16_WaitersTerminate == []C16_WaiterState /\ <>Finished

C16_Witness ==
    /\ Finished
    /\ result.err = "PV upgrade: PVC did not reach the Bound state"
    /\ seen.check.attempt = MaxAttempts
    /\ pvcObj.kind = "pvc" /\ pvcObj.Phase = ClaimLost

\* C17: the pod deletes issued so far are, in order, the first entries of
\* the owned list found at validation; a failed delete is the last call
\* made and its pod is the one the error names; no wait for a pod starts
\* before a delete was issued for every entry; and on success every owned
\* pod was deleted and seen absent or not running.
IsPodDelete(c) == c.op = "deletePod"
PodDeletes ==
    LET d == SelectSeq(calls, IsPodDelete) IN [i \in 1..Len(d) |-> d[i].target]
PodWaitStarted ==
    \/ pc = "waitForPods"
    \/ seen.terminal # {}
    \/ result.err = "PV upgrade: unexpected pod status"

C17_DeleteAllThenWait ==
    /\ Len(PodDeletes) <= Len(ownedPodsForPVC)
    /\ PodDeletes = SubSeq(ownedPodsForPVC, 1, Len(PodDeletes))
    /\ result.err = "PV upgrade: could not delete a pod using the PV" =>
        /\ calls[Len(calls)].op = "deletePod"
        /\ result.names = <<calls[Len(calls)].target>>
        /\ seen.terminal = {}
    /\ PodWaitStarted => PodDeletes = ownedPodsForPVC
    /\ result.status = "ok" =>
        /\ PodDeletes = ownedPodsForPVC
        /\ Range(ownedPodsForPVC) \subseteq seen.terminal

C17_Witness ==
    /\ result.status = "ok"
    /\ Range(ownedPodsForPVC) = Range(PodNames)
    /\ PodDeletes = ownedPodsForPVC
    /\ seen.terminal = Range(PodNames)

\* C18: the plugin issues at most one claim patch, after it saw the claim
\* Lost and before any PV create; the patch is computed from the claim seen
\* Lost to that claim less its bind-completed annotation, every other field
\* and annotation kept; no other call targets the claim; and the only step
\* of the plugin that changes the claim is that patch, which leaves it in
\* place under its name with nothing changed but annotations removed.
PluginState == <<pc, ret, subErr, attempts, idx, locals, result, calls, steps, seen>>

C18_PatchState ==
    /\ Cardinality(CallsOf("patchPVC")) <= 1
    /\ Ops \subseteq {"deletePV", "patchPV", "deletePod", "patchPVC", "createPV"}
    /\ "patchPVC" \in Ops <=> seen.pvcPatch # Nil
    /\ \A i \in CallsOf("patchPVC"), j \in CallsOf("createPV") : i < j
    /\ "createPV" \in Ops => "patchPVC" \in Ops
    /\ seen.pvcPatch # Nil =>
        /\ seen.lost
        /\ seen.pvcPatch.old = lostPVC
        /\ lostPVC.Phase = ClaimLost
        /\ AnnBindCompleted \notin Keys(seen.pvcPatch.new.Annotations)
        /\ seen.pvcPatch.new.Annotations =
             {kv \in lostPVC.Annotations : kv[1] # AnnBindCompleted}
        /\ [seen.pvcPatch.new EXCEPT !.Annotations = lostPVC.Annotations] = lostPVC

C18_OnlyClaimWrite ==
    /\ []C18_PatchState
    /\ [][PluginState' # PluginState /\ pvcObj' # pvcObj =>
            /\ pc = "removeBindCompleted"
            /\ pvcObj'.kind = "pvc"
            /\ [pvcObj' EXCEPT !.Annotations = pvcObj.Annotations] = pvcObj
            /\ pvcObj'.Annotations \subseteq pvcObj.Annotations]_vars

C18_Witness ==
    /\ "createPV" \in Ops
    /\ seen.pvcPatch # Nil
    /\ lostPVC.Annotations = {<<AnnBindCompleted, "yes">>, <<"team", "storage">>}
    /\ seen.pvcPatch.new.Annotations = {<<"team", "storage">>}
    /\ unboundLostPVC.Annotations = {<<"team", "storage">>}

\* C19: neither name list built by getPodsForPVC holds a name twice, and no
\* pod is the target of more than one delete call.
NoDuplicates(q) == \A i, j \in 1..Len(q) : i # j => q[i] # q[j]

C19_NoDuplicateNames ==
    /\ NoDuplicates(ownedPodsForPVC)
    /\ NoDuplicates(nakedPodsForPVC)
    /\ NoDuplicates(PodDeletes)

\* C20: the PV that createCSIPVFromPV submits to Create has no deletion
\* timestamp.
C20_NoDeletionMarker == csiPV # Nil => ~csiPV.DeletionTimestamp

\* C21: the finalizers a finalizer patch takes off the PV, those of the
\* object the patch is computed from that its target no longer has, are
\* none but the pv-protection finalizer, also when another actor adds a
\* finalizer to the PV after validation has checked the cached PV.
PatchRemoves ==
    {seen.pvPatch.old.Finalizers[i] : i \in 1..Len(seen.pvPatch.old.Finalizers)}
        \ {seen.pvPatch.new.Finalizers[i] : i \in 1..Len(seen.pvPatch.new.Finalizers)}

C21_OnlyApprovedFinalizersRemoved ==
    seen.pvPatch # Nil => PatchRemoves \subseteq {FinalizerPVProtection}

====
